---- MODULE Spec2Model ----
(***************************************************************************)
(* Model of the workflow execution engine of RelayPoint,                   *)
(* backend/app/services/workflow_engine_elite.py (EliteWorkflowEngine).    *)
(*                                                                         *)
(* The engine runs on one asyncio event loop: the code between two         *)
(* suspension points (await on an empty queue, on an unfinished task, on   *)
(* a handler's I/O, on a backoff sleep) runs atomically.  Each action      *)
(* below is one such atomic segment.                                       *)
(***************************************************************************)
EXTENDS Integers, Sequences, FiniteSets, TLC

(***************************************************************************)
(* Bounds of the model.                                                    *)
(***************************************************************************)
MaxExecutions == 1
MaxRegistrations == 1
MaxRetries == 2
MaxReruns == 2
MaxReplacements == 2
MaxPieces == 4

(***************************************************************************)
(* Enumerations of the source.                                             *)
(***************************************************************************)
WorkflowStatus == {"pending", "running", "completed", "failed", "cancelled", "paused"}

StepStatus == {"pending", "running", "completed", "failed", "skipped", "retrying"}

StepType == {"ai_task", "http_request", "database_query", "email_send",
             "file_process", "conditional", "loop", "parallel", "webhook",
             "custom_code", "approval", "delay"}

UserIds == {"u1", "u2"}
Invokers == {"u1"}
WorkflowIds == {"w1", "w2"}
ExecutionIds == 1..MaxExecutions

None == "None"
EmptyMap == [n \in {} |-> 0]

(***************************************************************************)
(* Small helpers on finite maps (Python dicts) and sequences.              *)
(***************************************************************************)
Range(seq) == {seq[i] : i \in DOMAIN seq}

MapPut(m, k, v) == [n \in (DOMAIN m) \cup {k} |-> IF n = k THEN v ELSE m[n]]

(***************************************************************************)
(* Dataclasses of the source.                                              *)
(***************************************************************************)
WorkflowVariable(value, type) == [value |-> value, type |-> type]

StepConfiguration(step_id, step_type, config, outputs, conditions, max_retries, timeout_seconds, depends_on, run_on_failure) ==
    [step_id |-> step_id, step_type |-> step_type, config |-> config,
     outputs |-> outputs, conditions |-> conditions,
     retry_policy |-> [max_retries |-> max_retries, delay_seconds |-> 1],
     timeout_seconds |-> timeout_seconds, depends_on |-> depends_on,
     run_on_failure |-> run_on_failure]

StepExecution(status) ==
    [status |-> status, started_at |-> None, completed_at |-> None,
     result |-> EmptyMap, error_message |-> None, retry_count |-> 0]

WorkflowDefinition(workflow_id, name, steps, variables) ==
    [workflow_id |-> workflow_id, name |-> name, steps |-> steps,
     variables |-> variables, created_at |-> 0]

(***************************************************************************)
(* Pure functions of the engine.                                           *)
(***************************************************************************)
\* _register_default_handlers: the keys of self.step_handlers.
step_handlers == StepType

\* A validation that accepts every definition.
_validate_workflow_Mutant(workflow) == "ok"

\* _validate_workflow: "ok", or the exception it raises.
_validate_workflow(workflow) ==
    LET step_ids == {workflow.steps[i].step_id : i \in DOMAIN workflow.steps}
    IN  IF \E i \in DOMAIN workflow.steps :
              \E dep \in workflow.steps[i].depends_on : dep \notin step_ids
        THEN "ValueError"
        ELSE "ok"

\* _build_dependency_graph: the dict step_id -> depends_on, in the order of
\* the step list (a Python dict iterates in insertion order).
_build_dependency_graph(steps) ==
    [i \in DOMAIN steps |-> <<steps[i].step_id, steps[i].depends_on>>]

GraphKeys(dependency_graph) == {dependency_graph[i][1] : i \in DOMAIN dependency_graph}

\* A readiness test that does not look at the dependencies.
IsReady_Mutant(step_id, dependencies, completed_steps) ==
    step_id \notin completed_steps

\* The readiness test of _execute_steps for one entry of the graph.
IsReady(step_id, dependencies, completed_steps) ==
    /\ step_id \notin completed_steps
    /\ \A dep \in dependencies : dep \in completed_steps

\* ready_steps of _execute_steps: the ready step ids, in graph order.
ready_steps(dependency_graph, completed_steps) ==
    LET sel == SelectSeq(dependency_graph,
                         LAMBDA p : IsReady(p[1], p[2], completed_steps))
    IN  [i \in DOMAIN sel |-> sel[i][1]]

\* step_configs of _execute_steps: the configuration of a step id (the dict
\* comprehension keeps the last step of that id).
step_configs(workflow, step_id) ==
    LET idx == {i \in DOMAIN workflow.steps : workflow.steps[i].step_id = step_id}
    IN  workflow.steps[CHOOSE i \in idx : \A j \in idx : j <= i]

\* _evaluate_expression: a placeholder that accepts every expression.
_evaluate_expression(expression, variables) == TRUE

\* _evaluate_conditions: the conjunction over the list; an empty list is true.
_evaluate_conditions(conditions, variables) ==
    \A i \in DOMAIN conditions :
        _evaluate_expression(conditions[i].expression, variables)

\* An output binding that binds nothing.
_process_step_outputs_Mutant(variables, outputs, result) == variables

\* _process_step_outputs: outputs is the list of (field, variable) pairs of
\* the outputs dict, bound in order.
RECURSIVE _process_step_outputs(_, _, _)
_process_step_outputs(variables, outputs, result) ==
    IF outputs = <<>> THEN variables
    ELSE LET output_name == Head(outputs)[1]
             variable_name == Head(outputs)[2]
             bound == IF output_name \in DOMAIN result
                      THEN MapPut(variables, variable_name,
                                  IF variable_name \in DOMAIN variables
                                  THEN [variables[variable_name] EXCEPT
                                            !.value = result[output_name]]
                                  ELSE WorkflowVariable(result[output_name], "int"))
                      ELSE variables
         IN  _process_step_outputs(bound, Tail(outputs), result)

\* A text with {{name}} placeholders, as the list of its pieces: literal
\* text, or a placeholder {{name}}.
Text(string) == [kind |-> "text", value |-> string]
Placeholder(name) == [kind |-> "placeholder", value |-> name]

\* str(value) of a variable's value
str(value) == ToString(value)

\* The names \w+ matches: letters, digits and underscores only.  Of the
\* names used here, "user-id" is the one with another character.
IsWord(name) == name # "user-id"

\* A substitution that drops the placeholders it cannot resolve.
_resolve_variables_Mutant(text, variables) ==
    [i \in DOMAIN text |->
        IF text[i].kind = "placeholder"
        THEN IF IsWord(text[i].value) /\ text[i].value \in DOMAIN variables
             THEN Text(str(variables[text[i].value].value))
             ELSE Text("")
        ELSE text[i]]

\* _resolve_variables: re.sub replaces each match of \{\{(\w+)\}\} whose
\* name is a variable by str of its value, and leaves the rest of the text
\* as it is: the matches with another name, the braces around a name that
\* \w+ does not match, and the literal text.
_resolve_variables(text, variables) ==
    [i \in DOMAIN text |->
        IF /\ text[i].kind = "placeholder"
           /\ IsWord(text[i].value)
           /\ text[i].value \in DOMAIN variables
        THEN Text(str(variables[text[i].value].value))
        ELSE text[i]]

\* A retry test that is off by one.
ShouldRetry_Mutant(retry_count, max_retries) == retry_count <= max_retries

\* The retry test of _execute_step's except clause.
ShouldRetry(retry_count, max_retries) == retry_count < max_retries

\* retry_policy.get("max_retries", 0)
max_retries_of(step_config) ==
    IF "max_retries" \in DOMAIN step_config.retry_policy
    THEN step_config.retry_policy.max_retries
    ELSE 0

(***************************************************************************)
(* The handlers.  An attempt returns a result, raises, or is cut off by    *)
(* asyncio.wait_for after timeout_seconds.                                 *)
(***************************************************************************)
Return(result) == [kind |-> "return", result |-> result]
Raise == [kind |-> "raise", result |-> EmptyMap]
Timeout == [kind |-> "timeout", result |-> EmptyMap]

\* config.get("delay_seconds", 1) of _handle_delay
delay_seconds_of(config) ==
    IF "delay_seconds" \in DOMAIN config THEN config.delay_seconds ELSE 1

\* config.get("url", "") of _handle_http_request
url_of(config) == IF "url" \in DOMAIN config THEN config.url ELSE <<>>

\* What the handler resolves against the variables before its first await:
\* the URL of an HTTP request.
HandlerRequest(step_config, variables) ==
    IF step_config.step_type = "http_request"
    THEN _resolve_variables(url_of(step_config.config), variables)
    ELSE <<>>

\* "for key, value in headers.items(): headers[key] = resolved" of
\* _handle_http_request, where headers is the dict config["headers"] of the
\* step configuration: the configuration after the handler's first segment.
ResolvedHeaders(step_config, variables) ==
    IF step_config.step_type = "http_request" /\ "headers" \in DOMAIN step_config.config
    THEN [step_config EXCEPT !.config.headers =
             [key \in DOMAIN @ |-> _resolve_variables(@[key], variables)]]
    ELSE step_config

\* The definition with the object of step step_id replaced.
WriteStep(workflow, step_id, step_config) ==
    [workflow EXCEPT !.steps =
        [i \in DOMAIN @ |->
            IF @[i] = step_configs(workflow, step_id) THEN step_config ELSE @[i]]]

\* The outcomes one attempt of the step's handler can have.
HandlerOutcomes(step_config) ==
    CASE step_config.step_type = "delay" ->
            LET d == delay_seconds_of(step_config.config)
            IN  (IF d <= step_config.timeout_seconds
                 THEN {Return([delayed_seconds |-> d])} ELSE {})
                \cup (IF d >= step_config.timeout_seconds THEN {Timeout} ELSE {})
      [] step_config.step_type = "http_request" ->
            \* httpx refuses a URL without a scheme
            IF url_of(step_config.config) = <<>>
            THEN {Raise}
            ELSE {Return([status_code |-> 200]), Raise, Timeout}
      [] step_config.step_type = "conditional" ->
            {Return([condition_result |-> 1])}
      [] OTHER -> {Raise}

(***************************************************************************)
(* Workflow definitions offered to register_workflow.                      *)
(***************************************************************************)
NoConfig == EmptyMap
Fast == [delay_seconds |-> 1]
Slow == [delay_seconds |-> 600]

\* StepConfiguration.timeout_seconds: int = 300
DefaultTimeoutSeconds == 300

\* GET http://host/{{x}} with the header token: {{x}}
Get == [url |-> <<Text("http://host/"), Placeholder("x")>>,
        headers |-> [token |-> <<Placeholder("x")>>]]

Http(step_id, outputs, max_retries, depends_on, run_on_failure) ==
    StepConfiguration(step_id, "http_request", Get, outputs, <<>>,
                      max_retries, DefaultTimeoutSeconds, depends_on, run_on_failure)

Db(step_id, max_retries, depends_on, run_on_failure) ==
    StepConfiguration(step_id, "database_query", NoConfig, <<>>, <<>>,
                      max_retries, DefaultTimeoutSeconds, depends_on, run_on_failure)

\* A step whose step_type is no key of step_handlers.
Plugin(step_id, max_retries, depends_on) ==
    StepConfiguration(step_id, "plugin", NoConfig, <<>>, <<>>,
                      max_retries, DefaultTimeoutSeconds, depends_on, FALSE)

Delay(step_id, config, outputs, conditions, max_retries, depends_on) ==
    StepConfiguration(step_id, "delay", config, outputs, conditions,
                      max_retries, DefaultTimeoutSeconds, depends_on, FALSE)

Defaults == [x |-> WorkflowVariable(0, "int")]

\* A -> B -> C
DefChain ==
    WorkflowDefinition("w1", "chain",
        << Delay("A", Fast, << <<"delayed_seconds", "x">> >>, <<>>, 0, {}),
           Http("B", << <<"status_code", "y">> >>, 1, {"A"}, FALSE),
           Delay("C", Fast, << <<"delayed_seconds", "z">>, <<"waited", "x">> >>,
                 <<>>, 0, {"B"}) >>,
        Defaults)

\* A sibling guarded by a condition that is false listed before a
\* tolerated failing step, and a step joining both.
DefSiblings ==
    WorkflowDefinition("w1", "siblings",
        << Delay("B", Fast, <<>>, << [expression |-> "false"] >>, 0, {}),
           Db("A", 0, {}, TRUE),
           Http("C", <<>>, 0, {"A", "B"}, FALSE) >>,
        EmptyMap)

\* Steps that fail on every attempt: one raises, one times out.
DefRetry ==
    WorkflowDefinition("w1", "retry",
        << Db("A", MaxRetries, {}, FALSE),
           Delay("B", Slow, <<>>, <<>>, 1, {}) >>,
        EmptyMap)

\* A depends on B and B depends on A.
DefCycle ==
    WorkflowDefinition("w1", "cycle",
        << Delay("A", Fast, <<>>, <<>>, 0, {"B"}),
           Delay("B", Fast, <<>>, <<>>, 0, {"A"}),
           Delay("C", Fast, <<>>, <<>>, 0, {}) >>,
        EmptyMap)

\* A depends on a step id that is not in the definition.
DefUnknownDep ==
    WorkflowDefinition("w1", "unknown_dep",
        << Delay("A", Fast, <<>>, <<>>, 0, {}),
           Delay("B", Fast, <<>>, <<>>, 0, {"A", "Z"}) >>,
        EmptyMap)

\* A step without a handler next to a sibling that succeeds, and a step
\* waiting for the failing one.
DefAbort ==
    WorkflowDefinition("w1", "abort",
        << Delay("A", Fast, <<>>, <<>>, 0, {}),
           Plugin("B", 1, {}),
           Delay("C", Fast, <<>>, <<>>, 0, {"B"}) >>,
        EmptyMap)

\* The chain without its last step: A -> B, both delays.
DefShort ==
    WorkflowDefinition("w1", "short",
        << Delay("A", Fast, << <<"delayed_seconds", "x">> >>, <<>>, 0, {}),
           Delay("B", Fast, <<>>, <<>>, 0, {"A"}) >>,
        Defaults)

Definitions == {DefChain, DefSiblings, DefRetry, DefCycle, DefUnknownDep, DefAbort}

\* The initial_variables a caller passes to start_execution (None as {}).
InitialVariables == {EmptyMap, [x |-> 7]}

(***************************************************************************)
(* State.                                                                  *)
(***************************************************************************)
VARIABLES
    workflows,        \* self.workflows: workflow_id -> WorkflowDefinition
    executions,       \* self.executions: execution_id -> WorkflowExecution
    execution_queue,  \* self.execution_queue
    stats,            \* self.stats
    worker,           \* the position of _execution_worker
    tasks,            \* the step tasks made by asyncio.create_task
    call,             \* the API call that has just returned, with its result
    invocations,      \* per (execution, step): handler invocations so far
    requests,         \* per (execution, step): the URL each invocation resolved
    attempts,         \* per (execution, step): the outcomes of the attempts
    registrations,    \* number of definitions register_workflow has stored
    events            \* the _notify_* calls made: event -> number of calls

vars == <<workflows, executions, execution_queue, stats, worker, tasks, call,
          invocations, requests, attempts, registrations, events>>

\* The engine is constructed with an event sink (self.websocket_manager).
websocket_manager == TRUE

Event(kind, execution_id, step_id) == <<kind, execution_id, step_id>>

\* An engine that publishes nothing.
Notify_Mutant(published, event) == published

\* "if self.websocket_manager: await self._notify_...(...)"
Notify(published, event) ==
    IF websocket_manager
    THEN MapPut(published, event,
                IF event \in DOMAIN published THEN published[event] + 1 ELSE 1)
    ELSE published

RECURSIVE NotifyAll(_, _)
NotifyAll(published, evs) ==
    IF evs = <<>> THEN published
    ELSE NotifyAll(Notify(published, Head(evs)), Tail(evs))

NoWorkflow == WorkflowDefinition("", "", <<>>, EmptyMap)

NoCall == [op |-> "none", workflow |-> NoWorkflow, workflow_id |-> "",
           execution_id |-> 0, user_id |-> "", initial_variables |-> EmptyMap,
           value |-> "None"]

Call(op, workflow, execution_id, user_id, value) ==
    [op |-> op, workflow |-> workflow, workflow_id |-> workflow.workflow_id,
     execution_id |-> execution_id, user_id |-> user_id,
     initial_variables |-> EmptyMap, value |-> value]

WorkerIdle == [pc |-> "get", execution_id |-> 0, workflow |-> NoWorkflow,
               completed_steps |-> {}, wave |-> <<>>, idx |-> 0]

\* __init__
Init ==
    /\ workflows = EmptyMap
    /\ executions = EmptyMap
    /\ execution_queue = <<>>
    /\ stats = [total_executions |-> 0, successful_executions |-> 0,
                failed_executions |-> 0, active_executions |-> 0]
    /\ worker = WorkerIdle
    /\ tasks = EmptyMap
    /\ call = NoCall
    /\ invocations = EmptyMap
    /\ requests = EmptyMap
    /\ attempts = EmptyMap
    /\ registrations = 0
    /\ events = EmptyMap

\* len([e for e in self.executions.values() if e.status == RUNNING])
ActiveExecutions(execs) ==
    Cardinality({e \in DOMAIN execs : execs[e].status = "running"})

(***************************************************************************)
(* The API.                                                                *)
(***************************************************************************)
\* The definition object a caller constructs for a call of
\* register_workflow: created_at is the time of its construction.
Created(workflow) == [workflow EXCEPT !.created_at = registrations + 1]

register_workflow(workflow) ==
    /\ IF _validate_workflow(workflow) = "ok"
       THEN /\ registrations' = registrations + 1
            /\ workflows' = MapPut(workflows, workflow.workflow_id, workflow)
            /\ call' = Call("register_workflow", workflow, 0, "", workflow.workflow_id)
       ELSE /\ registrations' = registrations
            /\ workflows' = workflows
            /\ call' = Call("register_workflow", workflow, 0, "", "ValueError")
    /\ UNCHANGED <<executions, execution_queue, stats, worker, tasks,
                   invocations, requests, attempts, events>>

\* A failing start_execution that still publishes ExecutionStarted.
start_execution_not_found_Mutant(workflow_id, user_id) ==
    /\ workflow_id \notin DOMAIN workflows
    /\ call' = [Call("start_execution", NoWorkflow, 0, user_id, "ValueError")
                   EXCEPT !.workflow_id = workflow_id]
    /\ events' = MapPut(events, Event("ExecutionStarted", 0, ""), 1)
    /\ UNCHANGED <<workflows, executions, execution_queue, stats, worker, tasks,
                   invocations, requests, attempts, registrations>>

\* start_execution with a workflow id that is not registered
start_execution_not_found(workflow_id, user_id) ==
    /\ workflow_id \notin DOMAIN workflows
    /\ call' = [Call("start_execution", NoWorkflow, 0, user_id, "ValueError")
                   EXCEPT !.workflow_id = workflow_id]
    /\ UNCHANGED <<workflows, executions, execution_queue, stats, worker, tasks,
                   invocations, requests, attempts, registrations, events>>

start_execution(workflow_id, user_id, initial_variables) ==
    /\ workflow_id \in DOMAIN workflows
    /\ LET workflow == workflows[workflow_id]
           execution_id == stats.total_executions + 1
           variables ==
               [name \in DOMAIN workflow.variables |->
                   WorkflowVariable(
                       IF name \in DOMAIN initial_variables
                       THEN initial_variables[name]
                       ELSE workflow.variables[name].value,
                       workflow.variables[name].type)]
           step_executions ==
               [s \in Range([i \in DOMAIN workflow.steps |-> workflow.steps[i].step_id])
                   |-> StepExecution("pending")]
           execution ==
               [workflow_id |-> workflow_id, user_id |-> user_id,
                status |-> "pending", started_at |-> "set", completed_at |-> None,
                variables |-> variables, step_executions |-> step_executions,
                error_message |-> None, progress |-> <<0, 1>>]
           execs == MapPut(executions, execution_id, execution)
       IN  /\ executions' = execs
           /\ execution_queue' = Append(execution_queue, execution_id)
           /\ stats' = [stats EXCEPT !.total_executions = @ + 1,
                                     !.active_executions = ActiveExecutions(execs)]
           /\ events' = Notify(events, Event("ExecutionStarted", execution_id, ""))
           /\ call' = [Call("start_execution", NoWorkflow, execution_id, user_id,
                             "returned")
                           EXCEPT !.workflow_id = workflow_id,
                                  !.initial_variables = initial_variables]
    /\ UNCHANGED <<workflows, worker, tasks, invocations, requests, attempts, registrations>>

\* A cancellation that also fails the steps waiting for a retry.
CancelledStep_Mutant(step_execution) ==
    IF step_execution.status \in {"running", "retrying"}
    THEN [step_execution EXCEPT !.status = "failed",
                                !.error_message = "Execution cancelled by user",
                                !.completed_at = "set"]
    ELSE step_execution

\* The status cancel_execution gives a StepExecution.
CancelledStep(step_execution) ==
    IF step_execution.status = "running"
    THEN [step_execution EXCEPT !.status = "failed",
                                !.error_message = "Execution cancelled by user",
                                !.completed_at = "set"]
    ELSE step_execution

\* A test that lets a Pending execution be cancelled too.
IsCancellable_Mutant(execution, user_id) ==
    execution.status \in {"running", "pending"}

\* The test of cancel_execution for an execution it may cancel.
IsCancellable(execution, user_id) == execution.status = "running"

cancel_execution(execution_id, user_id) ==
    /\ IF execution_id \notin DOMAIN executions
       THEN /\ executions' = executions
            /\ events' = events
            /\ call' = Call("cancel_execution", NoWorkflow, execution_id, user_id, "False")
       ELSE LET execution == executions[execution_id]
            IN  IF IsCancellable(execution, user_id)
                THEN /\ executions' =
                          [executions EXCEPT ![execution_id] =
                              [execution EXCEPT
                                  !.status = "cancelled",
                                  !.completed_at = "set",
                                  !.step_executions =
                                      [s \in DOMAIN execution.step_executions |->
                                          CancelledStep(execution.step_executions[s])]]]
                     /\ events' = Notify(events,
                                      Event("ExecutionCancelled", execution_id, ""))
                     /\ call' = Call("cancel_execution", NoWorkflow, execution_id, user_id, "True")
                ELSE /\ executions' = executions
                     /\ events' = events
                     /\ call' = Call("cancel_execution", NoWorkflow, execution_id, user_id, "False")
    /\ UNCHANGED <<workflows, execution_queue, stats, worker, tasks,
                   invocations, requests, attempts, registrations>>

(***************************************************************************)
(* The step runner: _execute_step, one atomic segment per action.          *)
(***************************************************************************)
\* step_config is an object of the definition the worker runs; definition
\* tells which one, by its created_at.
Task(pc, exception, step_config, definition) ==
    [pc |-> pc, exception |-> exception, step_config |-> step_config,
     definition |-> definition]

\* The except Exception clause of _execute_step, up to the backoff sleep or
\* the re-raise.
OnException(step_execution, step_config) ==
    IF ShouldRetry(step_execution.retry_count, max_retries_of(step_config))
    THEN [se |-> [step_execution EXCEPT !.retry_count = @ + 1,
                                        !.status = "retrying"],
          pc |-> "sleep", exception |-> None, invoked |-> FALSE]
    ELSE [se |-> [step_execution EXCEPT !.status = "failed",
                                        !.error_message = "Exception",
                                        !.completed_at = "set"],
          pc |-> "done", exception |-> "Exception", invoked |-> FALSE]

\* The except asyncio.TimeoutError clause of _execute_step.
OnTimeout(step_execution, step_config) ==
    [se |-> [step_execution EXCEPT !.status = "failed",
                                   !.error_message = "timed out",
                                   !.completed_at = "set"],
     pc |-> "done", exception |-> "TimeoutError", invoked |-> FALSE]

\* The entry of _execute_step, up to the call of the handler.
EnterStep(step_execution, step_config, variables) ==
    LET running == [step_execution EXCEPT !.status = "running",
                                          !.started_at = "set"]
    IN  IF ~_evaluate_conditions(step_config.conditions, variables)
        THEN [se |-> [running EXCEPT !.status = "skipped", !.completed_at = "set"],
              pc |-> "done", exception |-> None, invoked |-> FALSE]
        ELSE IF step_config.step_type \notin step_handlers
        THEN OnException(running, step_config)
        ELSE [se |-> running, pc |-> "handler", exception |-> None,
              invoked |-> TRUE]

\* A task enters _execute_step: the first time (pc = "created") or again
\* after the backoff sleep of a retry (pc = "sleep").
EnterTask(e, s, from) ==
    /\ <<e, s>> \in DOMAIN tasks
    /\ tasks[<<e, s>>].pc = from
    /\ LET task == tasks[<<e, s>>]
           execution == executions[e]
       IN  IF s \notin DOMAIN execution.step_executions
           THEN \* execution.step_executions[step_config.step_id] raises
                /\ tasks' = [tasks EXCEPT ![<<e, s>>] =
                                Task("done", "KeyError", task.step_config, task.definition)]
                /\ UNCHANGED <<workflows, executions, worker, invocations, requests>>
           ELSE LET r == EnterStep(execution.step_executions[s],
                                   task.step_config, execution.variables)
                    \* the handler's first segment writes to its configuration,
                    \* which every holder of the definition sees
                    step_config == IF r.invoked
                                   THEN ResolvedHeaders(task.step_config,
                                                        execution.variables)
                                   ELSE task.step_config
                IN  /\ executions' =
                          [executions EXCEPT ![e].step_executions[s] = r.se]
                    /\ tasks' =
                          [k \in DOMAIN tasks |->
                              IF k = <<e, s>>
                              THEN Task(r.pc, r.exception, step_config, task.definition)
                              ELSE IF k[2] = s /\ tasks[k].definition = task.definition
                              THEN [tasks[k] EXCEPT !.step_config = step_config]
                              ELSE tasks[k]]
                    /\ worker' =
                          IF worker.workflow.created_at = task.definition
                          THEN [worker EXCEPT !.workflow = WriteStep(@, s, step_config)]
                          ELSE worker
                    /\ workflows' =
                          [w \in DOMAIN workflows |->
                              IF workflows[w].created_at = task.definition
                              THEN WriteStep(workflows[w], s, step_config)
                              ELSE workflows[w]]
                    /\ invocations' =
                          IF r.invoked
                          THEN [invocations EXCEPT ![<<e, s>>] = @ + 1]
                          ELSE invocations
                    /\ requests' =
                          IF r.invoked
                          THEN [requests EXCEPT ![<<e, s>>] =
                                   Append(@, HandlerRequest(task.step_config,
                                                            execution.variables))]
                          ELSE requests
    /\ call' = NoCall
    /\ UNCHANGED <<execution_queue, stats, attempts, registrations, events>>

TaskStart(e, s) == EnterTask(e, s, "created")

TaskRetry(e, s) == EnterTask(e, s, "sleep")

\* Executions of one workflow that share one variable store.
BindOutputs_Mutant(execs, e, step_config, result) ==
    [x \in DOMAIN execs |->
        IF execs[x].workflow_id = execs[e].workflow_id
        THEN [execs[x] EXCEPT !.variables =
                 _process_step_outputs(execs[e].variables, step_config.outputs, result)]
        ELSE execs[x]]

\* _process_step_outputs(execution, step_config, result) writes to
\* execution.variables, the dict start_execution made for this execution.
BindOutputs(execs, e, step_config, result) ==
    [execs EXCEPT ![e].variables =
        _process_step_outputs(@, step_config.outputs, result)]

\* The handler's attempt ends: it returns, raises, or wait_for times out.
HandlerDone(e, s, outcome) ==
    /\ <<e, s>> \in DOMAIN tasks
    /\ tasks[<<e, s>>].pc = "handler"
    /\ outcome \in HandlerOutcomes(tasks[<<e, s>>].step_config)
    /\ LET task == tasks[<<e, s>>]
           execution == executions[e]
           step_execution == execution.step_executions[s]
       IN  CASE outcome.kind = "return" ->
                  /\ executions' =
                        [BindOutputs(executions, e, task.step_config, outcome.result)
                            EXCEPT ![e].step_executions[s] =
                                [step_execution EXCEPT
                                    !.result = outcome.result,
                                    !.status = "completed",
                                    !.completed_at = "set"]]
                  /\ tasks' = [tasks EXCEPT ![<<e, s>>] =
                                  Task("done", None, task.step_config, task.definition)]
             [] outcome.kind = "timeout" ->
                  LET r == OnTimeout(step_execution, task.step_config)
                  IN  /\ executions' =
                            [executions EXCEPT ![e].step_executions[s] = r.se]
                      /\ tasks' = [tasks EXCEPT ![<<e, s>>] =
                                      Task(r.pc, r.exception, task.step_config, task.definition)]
             [] outcome.kind = "raise" ->
                  LET r == OnException(step_execution, task.step_config)
                  IN  /\ executions' =
                            [executions EXCEPT ![e].step_executions[s] = r.se]
                      /\ tasks' = [tasks EXCEPT ![<<e, s>>] =
                                      Task(r.pc, r.exception, task.step_config, task.definition)]
    /\ attempts' = [attempts EXCEPT ![<<e, s>>] = Append(@, outcome.kind)]
    /\ call' = NoCall
    /\ UNCHANGED <<workflows, execution_queue, stats, worker, invocations,
                   requests, registrations, events>>

(***************************************************************************)
(* The scheduler: _execution_worker, _execute_workflow, _execute_steps.    *)
(***************************************************************************)
\* A loop that breaks when no step is ready, whatever remains.
LoopTop_Mutant(workflow, completed_steps) ==
    LET dependency_graph == _build_dependency_graph(workflow.steps)
        ready == ready_steps(dependency_graph, completed_steps)
    IN  IF Cardinality(completed_steps) < Len(workflow.steps)
        THEN IF ready = <<>>
             THEN IF GraphKeys(dependency_graph) \ completed_steps # {}
                  THEN [outcome |-> "return", wave |-> <<>>, error |-> None]
                  ELSE [outcome |-> "return", wave |-> <<>>, error |-> None]
             ELSE [outcome |-> "dispatch", wave |-> ready, error |-> None]
        ELSE [outcome |-> "return", wave |-> <<>>, error |-> None]

\* The body of the while loop of _execute_steps up to the creation of the
\* tasks of a wave: the wave to dispatch, or how the loop ends.
LoopTop(workflow, completed_steps) ==
    LET dependency_graph == _build_dependency_graph(workflow.steps)
        ready == ready_steps(dependency_graph, completed_steps)
    IN  IF Cardinality(completed_steps) < Len(workflow.steps)
        THEN IF ready = <<>>
             THEN IF GraphKeys(dependency_graph) \ completed_steps # {}
                  THEN [outcome |-> "raise", wave |-> <<>>,
                        error |-> "Circular dependency detected"]
                  ELSE [outcome |-> "return", wave |-> <<>>, error |-> None]
             ELSE [outcome |-> "dispatch", wave |-> ready, error |-> None]
        ELSE [outcome |-> "return", wave |-> <<>>, error |-> None]

\* An await that returns as soon as the task has started.
IsDone_Mutant(task) == task.pc # "created"

\* "await task" returns (or raises) when the task has finished.
IsDone(task) == task.pc = "done"

\* A scheduler that aborts on every failure.
AbortsOnFailure_Always(step_config) == TRUE

\* A scheduler that tolerates every failure.
AbortsOnFailure_Never(step_config) == FALSE

\* "if not step_config.run_on_failure: raise" of _execute_steps
AbortsOnFailure(step_config) == ~step_config.run_on_failure

\* The "for step_id, task in tasks: await task" loop of _execute_steps from
\* position idx on, as far as the tasks awaited are done.
RECURSIVE AwaitTasks(_, _, _, _, _, _, _)
AwaitTasks(e, execution, workflow, completed_steps, wave, idx, notified) ==
    IF idx > Len(wave)
    THEN [outcome |-> "wave_done", execution |-> execution,
          completed_steps |-> completed_steps, idx |-> idx, error |-> None,
          notified |-> notified]
    ELSE LET step_id == wave[idx]
             task == tasks[<<e, step_id>>]
         IN  IF ~IsDone(task)
             THEN [outcome |-> "suspend", execution |-> execution,
                   completed_steps |-> completed_steps, idx |-> idx,
                   error |-> None, notified |-> notified]
             ELSE IF task.exception = None
             THEN LET done == completed_steps \cup {step_id}
                  IN  AwaitTasks(e,
                          [execution EXCEPT !.progress =
                              <<Cardinality(done) * 100, Len(workflow.steps)>>],
                          workflow, done, wave, idx + 1,
                          Append(notified, Event("StepCompleted", e, step_id)))
             ELSE IF step_id \notin DOMAIN execution.step_executions
             THEN [outcome |-> "raise", execution |-> execution,
                   completed_steps |-> completed_steps, idx |-> idx,
                   error |-> "KeyError", notified |-> notified]
             ELSE LET failed ==
                          [execution EXCEPT
                              !.step_executions[step_id].status = "failed",
                              !.step_executions[step_id].error_message = task.exception,
                              !.step_executions[step_id].completed_at = "set"]
                  IN  IF AbortsOnFailure(step_configs(workflow, step_id))
                      THEN [outcome |-> "raise", execution |-> failed,
                            completed_steps |-> completed_steps, idx |-> idx,
                            error |-> "Step failed", notified |-> notified]
                      ELSE AwaitTasks(e, failed, workflow,
                                      completed_steps \cup {step_id}, wave, idx + 1,
                                      notified)

\* An except clause that only logs: the execution keeps its status.
Finished_Mutant(execution, outcome, error) ==
    IF outcome = "return"
    THEN [execution EXCEPT !.status = "completed", !.completed_at = "set",
                           !.progress = <<100, 1>>]
    ELSE execution

\* The end of _execute_workflow: the try body after _execute_steps, or the
\* except clause.
Finished(execution, outcome, error) ==
    IF outcome = "return"
    THEN [execution EXCEPT !.status = "completed", !.completed_at = "set",
                           !.progress = <<100, 1>>]
    ELSE [execution EXCEPT !.status = "failed", !.error_message = error,
                           !.completed_at = "set"]

\* The worker goes on from the top of the while loop of _execute_steps until
\* it suspends on a new wave or _execute_workflow ends.
Continue(e, execution, workflow, completed_steps, published) ==
    LET top == LoopTop(workflow, completed_steps)
    IN  IF top.outcome = "dispatch"
        THEN /\ executions' = [executions EXCEPT ![e] = execution]
             /\ tasks' =
                   [k \in DOMAIN tasks \cup {<<e, s>> : s \in Range(top.wave)} |->
                       IF k[1] = e /\ k[2] \in Range(top.wave)
                       THEN Task("created", None, step_configs(workflow, k[2]),
                                 workflow.created_at)
                       ELSE tasks[k]]
             /\ invocations' =
                   [k \in DOMAIN invocations \cup {<<e, s>> : s \in Range(top.wave)} |->
                       IF k \in DOMAIN invocations THEN invocations[k] ELSE 0]
             /\ requests' =
                   [k \in DOMAIN requests \cup {<<e, s>> : s \in Range(top.wave)} |->
                       IF k \in DOMAIN requests THEN requests[k] ELSE <<>>]
             /\ attempts' =
                   [k \in DOMAIN attempts \cup {<<e, s>> : s \in Range(top.wave)} |->
                       IF k \in DOMAIN attempts THEN attempts[k] ELSE <<>>]
             /\ worker' = [pc |-> "await", execution_id |-> e,
                           workflow |-> workflow,
                           completed_steps |-> completed_steps,
                           wave |-> top.wave, idx |-> 1]
             /\ events' = published
             /\ UNCHANGED stats
        ELSE LET execs == [executions EXCEPT ![e] =
                              Finished(execution, top.outcome, top.error)]
             IN  /\ executions' = execs
                 /\ stats' =
                       [stats EXCEPT
                           !.successful_executions =
                               IF top.outcome = "return" THEN @ + 1 ELSE @,
                           !.failed_executions =
                               IF top.outcome = "return" THEN @ ELSE @ + 1,
                           !.active_executions = ActiveExecutions(execs)]
                 /\ events' = Notify(published,
                                  Event(IF top.outcome = "return"
                                        THEN "ExecutionCompleted"
                                        ELSE "ExecutionFailed", e, ""))
                 /\ worker' = WorkerIdle
                 /\ UNCHANGED <<tasks, invocations, requests, attempts>>

\* _execution_worker takes an execution id from the queue and runs
\* _execute_workflow up to its first suspension.
WorkerGet ==
    /\ worker.pc = "get"
    /\ execution_queue # <<>>
    /\ LET e == Head(execution_queue)
       IN  /\ execution_queue' = Tail(execution_queue)
           /\ IF e \notin DOMAIN executions
              THEN /\ worker' = WorkerIdle
                   /\ UNCHANGED <<executions, stats, tasks, invocations, requests, attempts,
                                  events>>
              ELSE Continue(e, [executions[e] EXCEPT !.status = "running"],
                            workflows[executions[e].workflow_id], {}, events)
    /\ call' = NoCall
    /\ UNCHANGED <<workflows, registrations>>

\* The task the worker awaits is done: the worker goes on.  The tasks of a
\* wave are scheduled by create_task before the worker suspends, so each has
\* run its first segment before the worker is woken up.
WorkerResume ==
    /\ worker.pc = "await"
    /\ IsDone(tasks[<<worker.execution_id, worker.wave[worker.idx]>>])
    /\ \A s \in Range(worker.wave) : tasks[<<worker.execution_id, s>>].pc # "created"
    /\ LET e == worker.execution_id
           r == AwaitTasks(e, executions[e], worker.workflow,
                           worker.completed_steps, worker.wave, worker.idx, <<>>)
           published == NotifyAll(events, r.notified)
       IN  CASE r.outcome = "suspend" ->
                  /\ executions' = [executions EXCEPT ![e] = r.execution]
                  /\ worker' = [worker EXCEPT !.completed_steps = r.completed_steps,
                                              !.idx = r.idx]
                  /\ events' = published
                  /\ UNCHANGED <<stats, tasks, invocations, requests, attempts>>
             [] r.outcome = "wave_done" ->
                  Continue(e, r.execution, worker.workflow, r.completed_steps,
                           published)
             [] r.outcome = "raise" ->
                  LET execs == [executions EXCEPT ![e] =
                                   Finished(r.execution, "raise", r.error)]
                  IN  /\ executions' = execs
                      /\ stats' = [stats EXCEPT
                                      !.failed_executions = @ + 1,
                                      !.active_executions = ActiveExecutions(execs)]
                      /\ events' = Notify(published, Event("ExecutionFailed", e, ""))
                      /\ worker' = WorkerIdle
                      /\ UNCHANGED <<tasks, invocations, requests, attempts>>
    /\ call' = NoCall
    /\ UNCHANGED <<workflows, execution_queue, registrations>>

(***************************************************************************)
(* The specification.                                                      *)
(***************************************************************************)
Next ==
    \/ \E workflow \in Definitions :
           /\ _validate_workflow(workflow) = "ok" => registrations < MaxRegistrations
           /\ register_workflow(Created(workflow))
    \/ \E w \in WorkflowIds, u \in Invokers : start_execution_not_found(w, u)
    \/ \E w \in WorkflowIds, u \in Invokers, iv \in InitialVariables :
           /\ stats.total_executions < MaxExecutions
           /\ start_execution(w, u, iv)
    \/ \E e \in ExecutionIds, u \in UserIds : cancel_execution(e, u)
    \/ WorkerGet
    \/ WorkerResume
    \/ \E k \in DOMAIN tasks : TaskStart(k[1], k[2])
    \/ \E k \in DOMAIN tasks : TaskRetry(k[1], k[2])
    \/ \E k \in DOMAIN tasks :
           \E outcome \in HandlerOutcomes(tasks[k].step_config) :
               HandlerDone(k[1], k[2], outcome)

Spec == Init /\ [][Next]_vars

(***************************************************************************)
(* The specification for termination: the API calls that create work, and  *)
(* the worker and the step tasks scheduled fairly.  No cancellation.       *)
(***************************************************************************)
StepTasks ==
    \/ \E k \in DOMAIN tasks : TaskStart(k[1], k[2])
    \/ \E k \in DOMAIN tasks : TaskRetry(k[1], k[2])
    \/ \E k \in DOMAIN tasks :
           \E outcome \in HandlerOutcomes(tasks[k].step_config) :
               HandlerDone(k[1], k[2], outcome)

LiveNext ==
    \/ \E workflow \in Definitions :
           /\ _validate_workflow(workflow) = "ok" => registrations < MaxRegistrations
           /\ register_workflow(Created(workflow))
    \/ \E w \in WorkflowIds, u \in Invokers, iv \in InitialVariables :
           /\ stats.total_executions < MaxExecutions
           /\ start_execution(w, u, iv)
    \/ WorkerGet
    \/ WorkerResume
    \/ StepTasks

LiveSpec ==
    /\ Init
    /\ [][LiveNext]_vars
    /\ WF_vars(WorkerGet)
    /\ WF_vars(WorkerResume)
    /\ WF_vars(StepTasks)

(***************************************************************************)
(* The specification for several executions of one workflow: the chain is  *)
(* registered and started up to MaxReruns times.                           *)
(***************************************************************************)
RerunNext ==
    \/ /\ registrations < MaxRegistrations
       /\ register_workflow(Created(DefChain))
    \/ \E w \in WorkflowIds, u \in Invokers, iv \in InitialVariables :
           /\ stats.total_executions < MaxReruns
           /\ start_execution(w, u, iv)
    \/ WorkerGet
    \/ WorkerResume
    \/ StepTasks

RerunSpec == Init /\ [][RerunNext]_vars

(***************************************************************************)
(* The specification for a workflow id whose definition is replaced:       *)
(* register_workflow stores the chain or its short form, up to             *)
(* MaxReplacements times, around one execution.                            *)
(***************************************************************************)
ReregNext ==
    \/ \E workflow \in {DefChain, DefShort} :
           /\ registrations < MaxReplacements
           /\ register_workflow(Created(workflow))
    \/ \E w \in WorkflowIds, u \in Invokers, iv \in InitialVariables :
           /\ stats.total_executions < MaxExecutions
           /\ start_execution(w, u, iv)
    \/ WorkerGet
    \/ WorkerResume
    \/ StepTasks

ReregSpec == Init /\ [][ReregNext]_vars

(***************************************************************************)
(* The registry and its background sweep: get_execution_status and         *)
(* _monitoring_worker.  Time is kept as the age of completed_at: "set" is  *)
(* a time within the retention window of 24 hours, "old" a time before     *)
(* the cutoff.                                                             *)
(***************************************************************************)
\* get_execution_status: self.executions.get(execution_id)
get_execution_status(execution_id) ==
    /\ call' = Call("get_execution_status", NoWorkflow, execution_id, "",
                    IF execution_id \in DOMAIN executions
                    THEN "WorkflowExecution" ELSE "None")
    /\ UNCHANGED <<workflows, executions, execution_queue, stats, worker, tasks,
                   invocations, requests, attempts, registrations, events>>

\* A sweep without a retention window.
IsOld_Mutant(completed_at) == completed_at # None

\* "execution.completed_at and execution.completed_at < cutoff"
IsOld(completed_at) == completed_at = "old"

\* The list old_executions of _monitoring_worker.
old_executions ==
    {exec_id \in DOMAIN executions :
        /\ IsOld(executions[exec_id].completed_at)
        /\ executions[exec_id].status \in {"completed", "failed", "cancelled"}}

\* One round of _monitoring_worker after its sleep of a minute.
_monitoring_worker ==
    /\ executions' = [exec_id \in DOMAIN executions \ old_executions |->
                          executions[exec_id]]
    /\ call' = NoCall
    /\ UNCHANGED <<workflows, execution_queue, stats, worker, tasks,
                   invocations, requests, attempts, registrations, events>>

\* Nothing is in flight: the worker waits at the queue, which is empty, and
\* every task has ended.
Quiescent ==
    /\ worker.pc = "get"
    /\ execution_queue = <<>>
    /\ \A k \in DOMAIN tasks : tasks[k].pc = "done"

\* The retention window passes: every completed_at set so far is before
\* the cutoff from now on.  A run takes far less than the window (each
\* handler is under its timeout_seconds), so none is in flight across it.
WindowPasses ==
    /\ Quiescent
    /\ \E e \in DOMAIN executions : executions[e].completed_at = "set"
    /\ executions' = [e \in DOMAIN executions |->
                          IF executions[e].completed_at = "set"
                          THEN [executions[e] EXCEPT !.completed_at = "old"]
                          ELSE executions[e]]
    /\ call' = NoCall
    /\ UNCHANGED <<workflows, execution_queue, stats, worker, tasks,
                   invocations, requests, attempts, registrations, events>>

SweepNext ==
    \/ /\ registrations < MaxRegistrations
       /\ register_workflow(Created(DefChain))
    \/ \E w \in WorkflowIds, u \in Invokers :
           /\ stats.total_executions < MaxReruns
           /\ start_execution(w, u, EmptyMap)
    \/ \E e \in 1..MaxReruns : get_execution_status(e)
    \/ WorkerGet
    \/ WorkerResume
    \/ StepTasks
    \/ WindowPasses
    \/ _monitoring_worker

SweepSpec == Init /\ [][SweepNext]_vars

(***************************************************************************)
(* The specification of _resolve_variables alone: a text of up to          *)
(* MaxPieces pieces and a variable store are drawn, and the function is    *)
(* applied.  call holds the arguments and then the value returned.         *)
(***************************************************************************)
Pieces == {Text("a"), Placeholder("x"), Placeholder("q"), Placeholder("user-id")}

Texts == UNION {[1..n -> Pieces] : n \in 0..MaxPieces}

Stores ==
    {EmptyMap,
     [x |-> WorkflowVariable(7, "int")],
     MapPut(EmptyMap, "user-id", WorkflowVariable(3, "int")),
     MapPut([x |-> WorkflowVariable(7, "int")], "user-id", WorkflowVariable(3, "int"))}

ResolveInit ==
    /\ workflows = EmptyMap
    /\ executions = EmptyMap
    /\ execution_queue = <<>>
    /\ stats = [total_executions |-> 0, successful_executions |-> 0,
                failed_executions |-> 0, active_executions |-> 0]
    /\ worker = WorkerIdle
    /\ tasks = EmptyMap
    /\ \E text \in Texts, variables \in Stores :
           call = [op |-> "none", text |-> text, variables |-> variables,
                   value |-> <<>>]
    /\ invocations = EmptyMap
    /\ requests = EmptyMap
    /\ attempts = EmptyMap
    /\ registrations = 0
    /\ events = EmptyMap

Resolve ==
    /\ call.op = "none"
    /\ call' = [call EXCEPT !.op = "_resolve_variables",
                            !.value = _resolve_variables(call.text, call.variables)]
    /\ UNCHANGED <<workflows, executions, execution_queue, stats, worker, tasks,
                   invocations, requests, attempts, registrations, events>>

ResolveSpec == ResolveInit /\ [][Resolve]_vars

(***************************************************************************)
(* Vocabulary of the properties.                                           *)
(***************************************************************************)
StepIdsOf(workflow) == {workflow.steps[i].step_id : i \in DOMAIN workflow.steps}

DependsOn(workflow, step_id) ==
    UNION {workflow.steps[i].depends_on :
              i \in {j \in DOMAIN workflow.steps : workflow.steps[j].step_id = step_id}}

RECURSIVE Ancestors(_, _, _)
Ancestors(workflow, set, n) ==
    IF n = 0 THEN set
    ELSE Ancestors(workflow,
                   set \cup UNION {DependsOn(workflow, x) : x \in set}, n - 1)

\* Some step reaches itself along depends_on.
HasCycle(workflow) ==
    \E s \in StepIdsOf(workflow) :
        s \in Ancestors(workflow, DependsOn(workflow, s), Len(workflow.steps))

\* Some depends_on entry names a step id the definition does not have.
HasUnknownDependency(workflow) ==
    \E s \in StepIdsOf(workflow) : DependsOn(workflow, s) \ StepIdsOf(workflow) # {}

\* Some condition of the step is the expression "false".
ConditionsFalse(step_config) ==
    \E i \in DOMAIN step_config.conditions :
        step_config.conditions[i].expression = "false"

StepOf(k) == executions[k[1]].step_executions[k[2]]

HasStep(k) == k[2] \in DOMAIN executions[k[1]].step_executions

Last(seq) == seq[Len(seq)]

\* A dependency is terminal for its dependents: Completed, Skipped, or
\* Failed with continue-on-failure.
DependencyTerminal(e, dep) ==
    /\ dep \in DOMAIN executions[e].step_executions
    /\ LET status == executions[e].step_executions[dep].status
       IN  \/ status \in {"completed", "skipped"}
           \/ /\ status = "failed"
              /\ <<e, dep>> \in DOMAIN tasks
              /\ tasks[<<e, dep>>].step_config.run_on_failure

(***************************************************************************)
(* C1. Every execution created by start_execution eventually reaches       *)
(* status Completed or Failed, when it is not cancelled, the handlers      *)
(* terminate and the worker and the step tasks are scheduled fairly.       *)
(***************************************************************************)
C1_EventuallyTerminal ==
    \A e \in ExecutionIds :
        (e \in DOMAIN executions)
            ~> (e \in DOMAIN executions
                /\ executions[e].status \in {"completed", "failed"})

\* An execution of an acyclic definition has completed after a retry.
C1_Witness ==
    \E e \in DOMAIN executions :
        /\ executions[e].status = "completed"
        /\ ~HasCycle(workflows[executions[e].workflow_id])
        /\ \E s \in DOMAIN executions[e].step_executions :
               executions[e].step_executions[s].retry_count > 0

(***************************************************************************)
(* C2. A step is dispatched (and so becomes Running) only when every step  *)
(* of its depends_on is terminal: Completed, Skipped, or Failed with       *)
(* continue-on-failure.                                                    *)
(***************************************************************************)
C2_StartsAfterDependencies ==
    \A k \in DOMAIN tasks :
        \A dep \in tasks[k].step_config.depends_on : DependencyTerminal(k[1], dep)

\* A step with a dependency is Running.
C2_Witness ==
    \E k \in DOMAIN tasks :
        /\ tasks[k].step_config.depends_on # {}
        /\ HasStep(k)
        /\ StepOf(k).status = "running"

(***************************************************************************)
(* C3. register_workflow rejects a definition whose dependency relation    *)
(* has a cycle with CyclicDependency and does not store it.                *)
(***************************************************************************)
C3_CycleRejected ==
    /\ (call.op = "register_workflow" /\ HasCycle(call.workflow))
           => call.value = "CyclicDependency"
    /\ \A w \in DOMAIN workflows : ~HasCycle(workflows[w])

(***************************************************************************)
(* C4. register_workflow rejects a definition with a depends_on entry that *)
(* names an absent step id, and the table of registered workflows is then  *)
(* unchanged.                                                              *)
(***************************************************************************)
C4_UnknownDependencyRejected ==
    [][(call'.op = "register_workflow" /\ HasUnknownDependency(call'.workflow))
          => (call'.value = "ValueError" /\ workflows' = workflows)]_vars

\* A definition with an unknown dependency was rejected while another
\* definition was registered under the same id.
C4_Witness ==
    /\ call.op = "register_workflow"
    /\ HasUnknownDependency(call.workflow)
    /\ call.value = "ValueError"
    /\ call.workflow.workflow_id \in DOMAIN workflows

(***************************************************************************)
(* C5. A step with max_retries = n whose handler raises on every attempt   *)
(* ends Failed with retry_count = n after exactly n + 1 invocations.       *)
(***************************************************************************)
C5_RetriesExhausted ==
    \A k \in DOMAIN tasks :
        (/\ tasks[k].pc = "done"
         /\ attempts[k] # <<>>
         /\ \A i \in DOMAIN attempts[k] : attempts[k][i] = "raise")
        => /\ StepOf(k).status = "failed"
           /\ StepOf(k).retry_count = max_retries_of(tasks[k].step_config)
           /\ invocations[k] = max_retries_of(tasks[k].step_config) + 1

\* A step with max_retries = MaxRetries has failed on every attempt.
C5_Witness ==
    \E k \in DOMAIN tasks :
        /\ tasks[k].pc = "done"
        /\ max_retries_of(tasks[k].step_config) = MaxRetries
        /\ Len(attempts[k]) = MaxRetries + 1
        /\ \A i \in DOMAIN attempts[k] : attempts[k][i] = "raise"
        /\ StepOf(k).status = "failed"

(***************************************************************************)
(* C6. An attempt that times out is retried like one that raises: a step   *)
(* whose last attempt timed out is Failed only when its retries are        *)
(* exhausted (retry_count = max_retries).                                  *)
(***************************************************************************)
C6_TimeoutRetried ==
    \A k \in DOMAIN tasks :
        (/\ tasks[k].pc = "done"
         /\ attempts[k] # <<>>
         /\ Last(attempts[k]) = "timeout")
        => StepOf(k).retry_count = max_retries_of(tasks[k].step_config)

(***************************************************************************)
(* C7. A step whose conditions evaluate to false ends Skipped and its      *)
(* handler is never invoked.                                               *)
(***************************************************************************)
C7_FalseConditionSkips ==
    \A k \in DOMAIN tasks :
        ConditionsFalse(tasks[k].step_config)
        => /\ invocations[k] = 0
           /\ tasks[k].pc = "done" => StepOf(k).status = "skipped"

(***************************************************************************)
(* C8. cancel_execution on a Running execution returns true; the execution *)
(* is then Cancelled, every StepExecution that was Running is Failed and   *)
(* every other StepExecution is unchanged.                                 *)
(***************************************************************************)
C8_CancelRunning ==
    [][\A e \in DOMAIN executions :
          (/\ call'.op = "cancel_execution"
           /\ call'.execution_id = e
           /\ executions[e].status = "running")
          => /\ call'.value = "True"
             /\ executions'[e].status = "cancelled"
             /\ \A s \in DOMAIN executions[e].step_executions :
                    IF executions[e].step_executions[s].status = "running"
                    THEN executions'[e].step_executions[s].status = "failed"
                    ELSE executions'[e].step_executions[s]
                             = executions[e].step_executions[s]]_vars

\* A cancel has just returned true: a step that was Running is Failed and a
\* step that was Retrying still is.
C8_Witness ==
    /\ call.op = "cancel_execution"
    /\ call.value = "True"
    /\ LET steps == executions[call.execution_id].step_executions
       IN  /\ \E s \in DOMAIN steps :
                  steps[s].error_message = "Execution cancelled by user"
           /\ \E s \in DOMAIN steps : steps[s].status = "retrying"

(***************************************************************************)
(* C9. cancel_execution on an execution that is not Running, or on an      *)
(* unknown execution id, returns false and changes nothing; no event is    *)
(* published.                                                              *)
(***************************************************************************)
C9_CancelNotRunning ==
    [][(/\ call'.op = "cancel_execution"
        /\ \/ call'.execution_id \notin DOMAIN executions
           \/ executions[call'.execution_id].status # "running")
       => /\ call'.value = "False"
          /\ executions' = executions
          /\ events' = events]_vars

\* A cancel of a Pending execution has just returned false.
C9_Witness ==
    /\ call.op = "cancel_execution"
    /\ call.value = "False"
    /\ call.execution_id \in DOMAIN executions
    /\ executions[call.execution_id].status = "pending"

(***************************************************************************)
(* C10. cancel_execution by a caller that is not the execution's invoker   *)
(* fails with PermissionDenied and leaves the execution unchanged.  Stated *)
(* in its weakest reading: such a call does not return true, and the       *)
(* execution is as before.                                                 *)
(***************************************************************************)
C10_CancelByOtherDenied ==
    [][\A e \in DOMAIN executions :
          (/\ call'.op = "cancel_execution"
           /\ call'.execution_id = e
           /\ call'.user_id # executions[e].user_id)
          => /\ call'.value # "True"
             /\ executions'[e] = executions[e]]_vars

\* The steps of execution e that have been dispatched in a wave.
Dispatched(e) == {k[2] : k \in {x \in DOMAIN tasks : x[1] = e}}

TerminalStatus == {"completed", "failed", "cancelled"}

(***************************************************************************)
(* C11. After cancel_execution has returned true for an execution, the     *)
(* scheduler starts no new wave for it.  Stated in its weakest reading:    *)
(* while the execution is Cancelled no step is dispatched, so that no      *)
(* step outside the waves already started goes from Pending to Running.    *)
(***************************************************************************)
C11_NoWaveAfterCancel ==
    [][\A e \in DOMAIN executions :
          executions[e].status = "cancelled" => Dispatched(e)' = Dispatched(e)]_vars

(***************************************************************************)
(* C12. Completed, Failed and Cancelled are terminal: once an execution    *)
(* has one of these statuses, no step of the engine changes its status.    *)
(***************************************************************************)
C12_TerminalIsFinal ==
    [][\A e \in DOMAIN executions :
          executions[e].status \in TerminalStatus
          => executions'[e].status = executions[e].status]_vars

(***************************************************************************)
(* C13. An execution's status never goes from a terminal status            *)
(* (Completed, Failed, Cancelled) back to Pending or Running.              *)
(***************************************************************************)
C13_NoWayBack ==
    [][\A e \in DOMAIN executions :
          executions[e].status \in TerminalStatus
          => executions'[e].status \notin {"pending", "running"}]_vars

\* An execution has left the status Cancelled: its cancellation was
\* published and the worker has since made it Completed.
C13_Witness ==
    \E e \in DOMAIN executions :
        /\ Event("ExecutionCancelled", e, "") \in DOMAIN events
        /\ executions[e].status = "completed"
        /\ executions[e].workflow_id \in DOMAIN workflows
        /\ workflows[executions[e].workflow_id].name = "chain"

\* The worker has finished driving execution e.
Over(e) ==
    /\ e \in DOMAIN executions
    /\ worker.execution_id # e
    /\ e \notin Range(execution_queue)

TasksOf(e) == {k \in DOMAIN tasks : k[1] = e}

\* The task of a step has ended with an exception.
TaskFailed(k) == tasks[k].pc = "done" /\ tasks[k].exception # None

(***************************************************************************)
(* C14. When the steps that fail terminally all have run_on_failure set    *)
(* and every attempt of every other step returns, the execution ends       *)
(* Completed: the failed steps keep status Failed and every other step     *)
(* dispatched, a sibling in the wave of a failed step included, is         *)
(* Completed.                                                              *)
(***************************************************************************)
C14_ToleratedFailure ==
    \A e \in DOMAIN executions :
        (/\ Over(e)
         /\ \E k \in TasksOf(e) : TaskFailed(k)
         /\ \A k \in TasksOf(e) :
                IF TaskFailed(k)
                THEN tasks[k].step_config.run_on_failure
                ELSE \A i \in DOMAIN attempts[k] : attempts[k][i] = "return")
        => /\ executions[e].status = "completed"
           /\ \A k \in TasksOf(e) :
                  /\ HasStep(k)
                  /\ StepOf(k).status = IF TaskFailed(k) THEN "failed" ELSE "completed"

\* A run has ended Completed with a tolerated failed step, a Completed
\* sibling of its wave, and a Completed step that depends on both.
C14_Witness ==
    \E e \in DOMAIN executions :
        /\ Over(e)
        /\ executions[e].status = "completed"
        /\ Dispatched(e) = {"A", "B", "C"}
        /\ TaskFailed(<<e, "A">>)
        /\ tasks[<<e, "A">>].step_config.run_on_failure
        /\ tasks[<<e, "B">>].step_config.depends_on = {}
        /\ StepOf(<<e, "A">>).status = "failed"
        /\ StepOf(<<e, "B">>).status = "completed"
        /\ StepOf(<<e, "C">>).status = "completed"

\* A step of execution e without run_on_failure has ended Failed.
AbortingFailure(e) ==
    \E k \in TasksOf(e) : TaskFailed(k) /\ ~tasks[k].step_config.run_on_failure

RunsChain(e) ==
    /\ DOMAIN executions[e].step_executions = {"A", "B", "C"}
    /\ TasksOf(e) # {}
    /\ \A k \in TasksOf(e) :
           [tasks[k].step_config EXCEPT !.config = step_configs(DefChain, k[2]).config]
               = step_configs(DefChain, k[2])

\* Every attempt of every handler of execution e so far has returned.
HandlersSucceed(e) ==
    \A k \in TasksOf(e) : \A i \in DOMAIN attempts[k] : attempts[k][i] = "return"

(***************************************************************************)
(* C16. In a run of the chain A -> B -> C whose handlers succeed: the      *)
(* waves are [A], [B], [C] in this order; every request B's handler makes  *)
(* has the value A's handler returned for the variable bound from A's      *)
(* outputs in place of the placeholder; and when the run is over, the      *)
(* variable bound from B's outputs has the value B's handler returned, and *)
(* the three steps and the execution are Completed.                        *)
(***************************************************************************)
C16_ChainRuns ==
    \A e \in DOMAIN executions :
        (RunsChain(e) /\ HandlersSucceed(e))
        => /\ (worker.execution_id = e /\ worker.pc = "await")
              => \/ worker.completed_steps = {} /\ worker.wave = <<"A">>
                 \/ worker.completed_steps = {"A"} /\ worker.wave = <<"B">>
                 \/ worker.completed_steps = {"A", "B"} /\ worker.wave = <<"C">>
           /\ <<e, "B">> \in DOMAIN requests
              => \A i \in DOMAIN requests[<<e, "B">>] :
                     requests[<<e, "B">>][i] =
                         <<Text("http://host/"),
                           Text(str(StepOf(<<e, "A">>).result.delayed_seconds))>>
           /\ Over(e)
              => /\ executions[e].status = "completed"
                 /\ \A s \in {"A", "B", "C"} :
                        executions[e].step_executions[s].status = "completed"
                 /\ executions[e].variables.y.value
                        = executions[e].step_executions["B"].result.status_code

\* A run of the chain is over: B asked for http://host/1 once, and x and y
\* hold what A and B returned.
C16_Witness ==
    \E e \in DOMAIN executions :
        /\ RunsChain(e)
        /\ HandlersSucceed(e)
        /\ Over(e)
        /\ requests[<<e, "B">>] = << <<Text("http://host/"), Text("1")>> >>
        /\ executions[e].variables.x.value = 1
        /\ executions[e].variables.y.value = 200
        /\ executions[e].status = "completed"

\* How many times the event has been published.
Published(published, event) ==
    IF event \in DOMAIN published THEN published[event] ELSE 0

\* The execution event of a terminal status.
TerminalEvent(status, e) ==
    Event(CASE status = "completed" -> "ExecutionCompleted"
            [] status = "failed" -> "ExecutionFailed"
            [] status = "cancelled" -> "ExecutionCancelled", e, "")

C18_UnknownWorkflow ==
    [][(call'.op = "start_execution" /\ call'.workflow_id \notin DOMAIN workflows)
          => /\ call'.value = "ValueError"
             /\ executions' = executions
             /\ execution_queue' = execution_queue
             /\ events' = events
             /\ stats' = stats]_vars

\* start_execution of the unknown id w2 has just failed while an execution
\* of w1 is queued.
C18_Witness ==
    /\ call.op = "start_execution"
    /\ call.value = "ValueError"
    /\ call.workflow_id = "w2"
    /\ "w1" \in DOMAIN workflows
    /\ execution_queue # <<>>

(***************************************************************************)
(* C19. In every reachable state the retry_count of every StepExecution is *)
(* at least 0 and at most the max_retries of the configuration its step    *)
(* runs with; a step that has not been dispatched has retry_count 0.       *)
(***************************************************************************)
C19_RetryCountBounded ==
    \A e \in DOMAIN executions :
        \A s \in DOMAIN executions[e].step_executions :
            LET retry_count == executions[e].step_executions[s].retry_count
            IN  /\ retry_count >= 0
                /\ retry_count <= IF <<e, s>> \in DOMAIN tasks
                                  THEN max_retries_of(tasks[<<e, s>>].step_config)
                                  ELSE 0

\* A step waits for its last retry: its retry_count has reached its
\* max_retries = MaxRetries.
C19_Witness ==
    \E k \in DOMAIN tasks :
        /\ HasStep(k)
        /\ tasks[k].pc = "sleep"
        /\ StepOf(k).status = "retrying"
        /\ StepOf(k).retry_count = MaxRetries
        /\ max_retries_of(tasks[k].step_config) = MaxRetries

(***************************************************************************)
(* C20. Each execution owns its variables: a step of the engine that       *)
(* changes the variables of one execution (the binding of a step's         *)
(* outputs) leaves the variables of every other execution and the default  *)
(* variables of every registered definition as they are.                   *)
(***************************************************************************)
C20_OwnStore ==
    [][\A e \in DOMAIN executions :
          executions'[e].variables # executions[e].variables
          => /\ \A other \in DOMAIN executions \ {e} :
                    executions'[other].variables = executions[other].variables
             /\ \A w \in DOMAIN workflows :
                    workflows'[w].variables = workflows[w].variables]_vars

\* Two executions of one workflow: the first has bound x from a step's
\* outputs, the second still has the x its caller gave, and the definition
\* has its default.
C20_Witness ==
    \E e, other \in DOMAIN executions :
        /\ e # other
        /\ executions[e].workflow_id = executions[other].workflow_id
        /\ executions[e].step_executions["A"].status = "completed"
        /\ executions[e].variables.x.value = 1
        /\ executions[other].variables.x.value = 7
        /\ workflows[executions[e].workflow_id].variables.x.value = 0

(***************************************************************************)
(* C21. A registered definition is immutable: a step of the engine other   *)
(* than a call of register_workflow changes no field of any registered     *)
(* definition, a step's config included.                                   *)
(***************************************************************************)
C21_DefinitionImmutable ==
    [][call'.op # "register_workflow" => workflows' = workflows]_vars

(***************************************************************************)
(* C22. The execution is marked Failed for the failure of a step without   *)
(* run_on_failure only when the wave has settled: in the state in which    *)
(* its status becomes Failed, none of its StepExecutions is Running or     *)
(* Retrying.                                                               *)
(***************************************************************************)
C22_FailedAfterWaveSettled ==
    [][\A e \in DOMAIN executions :
          (/\ executions[e].status # "failed"
           /\ executions'[e].status = "failed"
           /\ AbortingFailure(e)')
          => \A s \in DOMAIN executions'[e].step_executions :
                 executions'[e].step_executions[s].status
                     \notin {"running", "retrying"}]_vars

(***************************************************************************)
(* C23. Wave barrier: while the scheduler waits for a wave, every step     *)
(* dispatched in an earlier wave of the execution has finished: its task   *)
(* is done and its StepExecution is neither Running nor Retrying.  So a    *)
(* step of a later wave starts only after every task of the waves before   *)
(* it has finished.                                                        *)
(***************************************************************************)
C23_WaveBarrier ==
    \A k \in DOMAIN tasks :
        (/\ worker.pc = "await"
         /\ worker.execution_id = k[1]
         /\ k[2] \notin Range(worker.wave))
        => /\ tasks[k].pc = "done"
           /\ HasStep(k) => StepOf(k).status \notin {"running", "retrying"}

\* The step of the second wave is Running after a wave of two steps.
C23_Witness ==
    \E e \in DOMAIN executions :
        /\ worker.pc = "await"
        /\ worker.execution_id = e
        /\ worker.wave = <<"C">>
        /\ Dispatched(e) = {"A", "B", "C"}
        /\ tasks[<<e, "A">>].step_config.depends_on = {}
        /\ tasks[<<e, "B">>].step_config.depends_on = {}
        /\ StepOf(<<e, "C">>).status = "running"

\* The definition the worker runs execution e with.
RunDefinition(e) ==
    IF worker.execution_id = e
    THEN worker.workflow
    ELSE workflows[executions[e].workflow_id]

\* The worker finishes with execution e in this step.
RunEnds(e) ==
    /\ e \in DOMAIN executions
    /\ executions[e].workflow_id \in DOMAIN workflows
    /\ ~Over(e)
    /\ Over(e)'

StepTerminal == {"completed", "failed", "skipped"}

\* The steps of a definition whose StepExecution in an execution is not
\* terminal.
Remaining(workflow, execution) ==
    {s \in StepIdsOf(workflow) \cap DOMAIN execution.step_executions :
        execution.step_executions[s].status \notin StepTerminal}

(***************************************************************************)
(* C24. When the run of an execution ends with steps that are not          *)
(* terminal although no failed step ended it (no remaining step was        *)
(* ready: a dependency cycle, or a dependency that is no step), the        *)
(* execution is Failed with the circular-dependency error; the steps left  *)
(* are Pending, were never dispatched and their handlers never invoked.    *)
(***************************************************************************)
C24_CycleFails ==
    [][\A e \in DOMAIN executions :
          (/\ RunEnds(e)
           /\ \A k \in TasksOf(e)' :
                  TaskFailed(k)' => HasStep(k)' /\ tasks'[k].step_config.run_on_failure
           /\ Remaining(RunDefinition(e), executions'[e]) # {})
          => /\ executions'[e].status = "failed"
             /\ executions'[e].error_message = "Circular dependency detected"
             /\ \A s \in Remaining(RunDefinition(e), executions'[e]) :
                    /\ executions'[e].step_executions[s].status = "pending"
                    /\ <<e, s>> \notin DOMAIN tasks'
                    /\ <<e, s>> \notin DOMAIN invocations']_vars

\* The run of the definition "cycle" has ended: C is Completed, and A and
\* B, which wait for each other, are Pending.
C24_Witness ==
    \E e \in DOMAIN executions :
        /\ Over(e)
        /\ executions[e].status = "failed"
        /\ executions[e].error_message = "Circular dependency detected"
        /\ Dispatched(e) = {"C"}
        /\ StepOf(<<e, "C">>).status = "completed"
        /\ executions[e].step_executions["A"].status = "pending"
        /\ executions[e].step_executions["B"].status = "pending"
        /\ executions[e].workflow_id \in DOMAIN workflows
        /\ workflows[executions[e].workflow_id].name = "cycle"

(***************************************************************************)
(* C25. A step whose kind has no registered handler fails at once: its     *)
(* retry_count stays 0, it is never Retrying, and its task never sleeps    *)
(* for a backoff delay, whatever its max_retries.                          *)
(***************************************************************************)
C25_NoHandlerNotRetried ==
    \A k \in DOMAIN tasks :
        (tasks[k].step_config.step_type \notin step_handlers /\ HasStep(k))
        => /\ StepOf(k).retry_count = 0
           /\ StepOf(k).status # "retrying"
           /\ tasks[k].pc # "sleep"

\* A dependency has a terminal status in an execution: Completed, Skipped,
\* or Failed with continue-on-failure.
TerminalIn(workflow, execution, dep) ==
    /\ dep \in DOMAIN execution.step_executions
    /\ \/ execution.step_executions[dep].status \in {"completed", "skipped"}
       \/ /\ execution.step_executions[dep].status = "failed"
          /\ dep \in StepIdsOf(workflow)
          /\ step_configs(workflow, dep).run_on_failure

\* readyFrontier: the steps whose StepExecution is Pending and whose
\* depends_on steps all have a terminal status.
ReadyFrontier(workflow, execution) ==
    {s \in StepIdsOf(workflow) :
        /\ s \in DOMAIN execution.step_executions
        /\ execution.step_executions[s].status = "pending"
        /\ \A dep \in DependsOn(workflow, s) : TerminalIn(workflow, execution, dep)}

(***************************************************************************)
(* C26. Every wave the scheduler dispatches is exactly readyFrontier, the  *)
(* steps whose StepExecution is Pending and whose depends_on steps are     *)
(* all terminal; and when the scheduler ends a run because it finds no     *)
(* step to dispatch (the execution is Completed, or Failed for a circular  *)
(* dependency), readyFrontier is empty.                                    *)
(***************************************************************************)
C26_WaveIsReadyFrontier ==
    [][\A e \in DOMAIN executions :
          /\ Dispatched(e)' # Dispatched(e)
             => Dispatched(e)' \ Dispatched(e)
                    = ReadyFrontier(RunDefinition(e), executions'[e])
          /\ (/\ RunEnds(e)
              /\ \/ executions'[e].status = "completed"
                 \/ executions'[e].error_message = "Circular dependency detected")
             => ReadyFrontier(RunDefinition(e), executions'[e]) = {}]_vars

(***************************************************************************)
(* C27. Whenever an execution is Completed, its progress is 100 and every  *)
(* one of its StepExecutions is terminal: Completed, Skipped, or Failed    *)
(* with continue-on-failure.                                               *)
(***************************************************************************)
C27_CompletedAllTerminal ==
    \A e \in DOMAIN executions :
        executions[e].status = "completed"
        => /\ executions[e].progress = <<100, 1>>
           /\ \A s \in DOMAIN executions[e].step_executions : DependencyTerminal(e, s)

(***************************************************************************)
(* C28. Once an execution has a terminal status (Completed, Failed or      *)
(* Cancelled), no step of the engine modifies its Variable Store.          *)
(***************************************************************************)
C28_StoreFrozenWhenTerminal ==
    [][\A e \in DOMAIN executions :
          executions[e].status \in TerminalStatus
          => executions'[e].variables = executions[e].variables]_vars

(***************************************************************************)
(* C29. A StepExecution that has reached Completed, Skipped or Failed      *)
(* never changes its status again, a step that cancel_execution marked     *)
(* Failed while its handler was in flight included.                        *)
(***************************************************************************)
C29_StepTerminalIsFinal ==
    [][\A e \in DOMAIN executions :
          \A s \in DOMAIN executions[e].step_executions :
              executions[e].step_executions[s].status \in StepTerminal
              => executions'[e].step_executions[s].status
                     = executions[e].step_executions[s].status]_vars

(***************************************************************************)
(* C30. An execution runs the steps of the definition that was registered  *)
(* when start_execution was called: every step the scheduler dispatches    *)
(* has a StepExecution in the execution, and when the run has ended        *)
(* Completed every StepExecution of the execution was dispatched.          *)
(***************************************************************************)
C30_RunsDefinitionAtStart ==
    \A e \in DOMAIN executions :
        /\ \A k \in TasksOf(e) : HasStep(k)
        /\ (Over(e) /\ executions[e].status = "completed")
           => DOMAIN executions[e].step_executions \subseteq Dispatched(e)

(***************************************************************************)
(* C31. A StepCompleted event is published at most once per step of an     *)
(* execution, and once the worker has finished with the execution, every   *)
(* step whose task has settled with a terminal status (Completed, Skipped  *)
(* or Failed) has its StepCompleted event.                                 *)
(***************************************************************************)
C31_StepCompletedForEverySettled ==
    \A e \in DOMAIN executions : \A k \in TasksOf(e) :
        /\ Published(events, Event("StepCompleted", e, k[2])) <= 1
        /\ (/\ Over(e)
            /\ tasks[k].pc = "done"
            /\ HasStep(k)
            /\ StepOf(k).status \in StepTerminal)
           => Published(events, Event("StepCompleted", e, k[2])) = 1

(***************************************************************************)
(* C32. Whenever a wave has settled and the scheduler goes on to the next  *)
(* one, the execution's progress equals 100 x (number of steps settled,    *)
(* which are the steps dispatched so far) / (number of steps of the        *)
(* definition run); progress never decreases and stays within 0..100.      *)
(* progress is the fraction <<numerator, denominator>>.                    *)
(***************************************************************************)
C32_ProgressCountsSettled ==
    [][\A e \in DOMAIN executions :
          LET before == executions[e].progress
              after == executions'[e].progress
          IN  /\ before[1] * after[2] <= after[1] * before[2]
              /\ 0 <= after[1]
              /\ after[1] <= 100 * after[2]
              /\ Dispatched(e)' # Dispatched(e)
                 => after[1] * Len(RunDefinition(e).steps)
                        = 100 * Cardinality(Dispatched(e)) * after[2]]_vars

(***************************************************************************)
(* C33. When start_execution returns, the new execution's Variable Store   *)
(* contains every default variable of the definition and every initial     *)
(* variable the caller supplied; a name that both define has the caller's  *)
(* value.                                                                  *)
(***************************************************************************)
C33_InitialVariables ==
    [][(call'.op = "start_execution" /\ call'.value = "returned")
          => LET variables == executions'[call'.execution_id].variables
                 defaults == workflows[call'.workflow_id].variables
                 initial_variables == call'.initial_variables
             IN  \A name \in DOMAIN defaults \cup DOMAIN initial_variables :
                     /\ name \in DOMAIN variables
                     /\ variables[name].value =
                            IF name \in DOMAIN initial_variables
                            THEN initial_variables[name]
                            ELSE defaults[name].value]_vars

(***************************************************************************)
(* C34. Within one execution a step is dispatched in at most one wave (a   *)
(* task that has started is never created again), so its handler is        *)
(* invoked at most max_retries + 1 times.                                  *)
(***************************************************************************)
C34_DispatchedOnce ==
    /\ [](\A k \in DOMAIN tasks :
            invocations[k] <= max_retries_of(tasks[k].step_config) + 1)
    /\ [][\A k \in DOMAIN tasks :
            tasks'[k].pc = "created" => tasks[k].pc = "created"]_vars

\* In a run of the chain, B's handler was invoked twice, the second time
\* successfully, and the wave of C has been dispatched.
C34_Witness ==
    \E e \in DOMAIN executions :
        /\ Dispatched(e) = {"A", "B", "C"}
        /\ max_retries_of(tasks[<<e, "B">>].step_config) = 1
        /\ invocations[<<e, "B">>] = 2
        /\ attempts[<<e, "B">>] = <<"raise", "return">>
        /\ tasks[<<e, "C">>].pc = "created"

(***************************************************************************)
(* C35. At most one execution has status Running at any time, and it is    *)
(* the execution the single worker is driving: the worker marks the next   *)
(* execution Running only after it has finished with the previous one.     *)
(***************************************************************************)
C35_OneRunning ==
    /\ Cardinality({e \in DOMAIN executions : executions[e].status = "running"}) <= 1
    /\ \A e \in DOMAIN executions :
           executions[e].status = "running" => worker.execution_id = e

\* The worker drives the second execution, which is Running with a wave
\* dispatched, after it has finished with the first one.
C35_Witness ==
    \E e1, e2 \in DOMAIN executions :
        /\ e1 # e2
        /\ executions[e1].status \in TerminalStatus
        /\ Over(e1)
        /\ executions[e2].status = "running"
        /\ worker.execution_id = e2
        /\ Dispatched(e2) # {}

(***************************************************************************)
(* C36. For each execution at most one terminal execution event            *)
(* (ExecutionCompleted, ExecutionFailed or ExecutionCancelled) is ever     *)
(* published.                                                              *)
(***************************************************************************)
C36_OneTerminalEvent ==
    \A e \in DOMAIN executions :
        Published(events, TerminalEvent("completed", e))
            + Published(events, TerminalEvent("failed", e))
            + Published(events, TerminalEvent("cancelled", e)) <= 1

\* The handler of task k returns in this step: its outputs are bound.
HandlerReturns(k) ==
    /\ tasks[k].pc = "handler"
    /\ tasks'[k].pc = "done"
    /\ tasks'[k].exception = None

(***************************************************************************)
(* C37. Binding a step's outputs sets, for each (field, variable) pair     *)
(* whose field is in the handler's result, the variable to the result's    *)
(* value, creating the variable if the store has none of this name, and    *)
(* changes nothing else: a variable mapped from a field that is not in the *)
(* result, and a variable not named in outputs, is as before, and no other *)
(* variable appears.                                                       *)
(***************************************************************************)
C37_BindingFrame ==
    [][\A k \in DOMAIN tasks :
          HandlerReturns(k)
          => LET outputs == tasks[k].step_config.outputs
                 result == executions'[k[1]].step_executions[k[2]].result
                 before == executions[k[1]].variables
                 after == executions'[k[1]].variables
                 present == {i \in DOMAIN outputs : outputs[i][1] \in DOMAIN result}
                 bound == {outputs[i][2] : i \in present}
             IN  /\ DOMAIN after = DOMAIN before \cup bound
                 /\ \A i \in present : after[outputs[i][2]].value = result[outputs[i][1]]
                 /\ \A name \in DOMAIN before \ bound : after[name] = before[name]
                 /\ \A name \in DOMAIN before \cap bound :
                        after[name].type = before[name].type]_vars

\* Step C of the chain has returned: z was created from delayed_seconds,
\* and x, mapped from a field the result does not have, still holds what A
\* bound.
C37_Witness ==
    \E e \in DOMAIN executions :
        /\ RunsChain(e)
        /\ <<e, "C">> \in DOMAIN tasks
        /\ StepOf(<<e, "C">>).status = "completed"
        /\ \E i \in DOMAIN tasks[<<e, "C">>].step_config.outputs :
               /\ tasks[<<e, "C">>].step_config.outputs[i][2] = "x"
               /\ tasks[<<e, "C">>].step_config.outputs[i][1]
                      \notin DOMAIN StepOf(<<e, "C">>).result
        /\ "z" \in DOMAIN executions[e].variables
        /\ executions[e].variables.z.value = StepOf(<<e, "C">>).result.delayed_seconds
        /\ executions[e].variables.x.value = StepOf(<<e, "A">>).result.delayed_seconds
        /\ "y" \in DOMAIN executions[e].variables

(***************************************************************************)
(* C38. The sweep removes an execution from the registry only if it is     *)
(* terminal and its completed_at is before the cutoff, so that a Pending   *)
(* or Running execution is never evicted; nothing else removes an          *)
(* execution; and get_execution_status returns the execution for every id  *)
(* in the registry, hence for every started execution until the sweep      *)
(* evicts it.                                                              *)
(***************************************************************************)
C38_SweepEvictsOldTerminal ==
    [][/\ \A e \in DOMAIN executions \ DOMAIN executions' :
              /\ executions[e].status \in TerminalStatus
              /\ executions[e].completed_at = "old"
       /\ \A e \in DOMAIN executions :
              executions[e].status \in {"pending", "running"}
              => e \in DOMAIN executions'
       /\ (call'.op = "get_execution_status"
           /\ call'.execution_id \in DOMAIN executions)
          => call'.value = "WorkflowExecution"]_vars

\* The sweep has evicted the first execution while the second, started
\* after the window had passed, is Running or Pending and still in the
\* registry, where get_execution_status has just found it.
C38_Witness ==
    /\ stats.total_executions = 2
    /\ 1 \notin DOMAIN executions
    /\ 2 \in DOMAIN executions
    /\ executions[2].status \in {"pending", "running"}
    /\ call.op = "get_execution_status"
    /\ call.execution_id = 2
    /\ call.value = "WorkflowExecution"

(***************************************************************************)
(* C39.  _resolve_variables replaces every {{name}} whose name is in the   *)
(* variable store by the string form of the variable's value, leaves every *)
(* {{name}} whose name is not in the store as it is, and leaves the text   *)
(* outside placeholders as it is.  As stated, for every name:              *)
(***************************************************************************)
C39_ResolveEveryName ==
    call.op = "_resolve_variables"
    => /\ DOMAIN call.value = DOMAIN call.text
       /\ \A i \in DOMAIN call.text :
              call.value[i] =
                  IF /\ call.text[i].kind = "placeholder"
                     /\ call.text[i].value \in DOMAIN call.variables
                  THEN Text(str(call.variables[call.text[i].value].value))
                  ELSE call.text[i]

(***************************************************************************)
(* C39, amended: the {{name}} replaced are those whose name consists of    *)
(* word characters (letters, digits, underscore) and is in the store;      *)
(* every other {{name}}, a name of the store with another character        *)
(* included, and the text outside placeholders are left as they are.       *)
(***************************************************************************)
C39_ResolveWordNames ==
    call.op = "_resolve_variables"
    => /\ DOMAIN call.value = DOMAIN call.text
       /\ \A i \in DOMAIN call.text :
              call.value[i] =
                  IF /\ call.text[i].kind = "placeholder"
                     /\ IsWord(call.text[i].value)
                     /\ call.text[i].value \in DOMAIN call.variables
                  THEN Text(str(call.variables[call.text[i].value].value))
                  ELSE call.text[i]

\* a{{x}}{{q}}{{user-id}} was resolved with x and user-id in the store:
\* the result is a7{{q}}{{user-id}}.
C39_Witness ==
    /\ call.op = "_resolve_variables"
    /\ call.text = <<Text("a"), Placeholder("x"), Placeholder("q"), Placeholder("user-id")>>
    /\ DOMAIN call.variables = {"x", "user-id"}
    /\ call.value = <<Text("a"), Text("7"), Placeholder("q"), Placeholder("user-id")>>

====
